---- MODULE Spec2Model ----
(***************************************************************************)
(* Model of the transaction reconciliation engine of stock_tools           *)
(* (pkg/core/StockTransactor.py and the types it uses).                     *)
(*                                                                         *)
(* Python objects are modelled with identity: every StockTransaction lives  *)
(* in `heap` and is referred to by its index, because the engine shares     *)
(* one object between the file transaction list, the lot queues and the     *)
(* session history and mutates it in place.  Money values (Python floats)   *)
(* are exact rationals <<numerator, denominator>>; share amounts are        *)
(* integers.  Dates are day numbers.                                        *)
(***************************************************************************)
EXTENDS Integers, Sequences, FiniteSets, TLC

VARIABLES heap, buy_transactions, sale_items, history, file_transactions,
          splits, washgroups, wash_sales, file, last, calls, applied

vars == <<heap, buy_transactions, sale_items, history, file_transactions,
          splits, washgroups, wash_sales, file, last, calls, applied>>

(***************************************************************************)
(* Exact arithmetic standing for Python float arithmetic                   *)
(***************************************************************************)
Abs(n) == IF n < 0 THEN 0 - n ELSE n

RECURSIVE GCD(_, _)
GCD(a, b) == IF b = 0 THEN a ELSE GCD(b, a % b)

Norm(n, d) ==
    LET g == GCD(Abs(n), d)
    IN  IF n < 0 THEN <<0 - (Abs(n) \div g), d \div g>> ELSE <<n \div g, d \div g>>

R(n) == <<n, 1>>
Zero == <<0, 1>>
RAdd(a, b) == Norm(a[1] * b[2] + b[1] * a[2], a[2] * b[2])
RSub(a, b) == Norm(a[1] * b[2] - b[1] * a[2], a[2] * b[2])
RMul(a, b) == Norm(a[1] * b[1], a[2] * b[2])
RDivInt(a, k) == Norm(a[1], a[2] * k)
RLt(a, b) == a[1] * b[2] < b[1] * a[2]
RLe(a, b) == a[1] * b[2] <= b[1] * a[2]
RAbs(a) == <<Abs(a[1]), a[2]>>
RMin(a, b) == IF RLt(b, a) THEN b ELSE a
Min(a, b) == IF b < a THEN b ELSE a

(***************************************************************************)
(* StockTransaction                                                        *)
(***************************************************************************)
NoLot == "None"

\* StockTransaction.__init__: the fields of a freshly constructed transaction
StockTransaction(tr_type, ticker, amount, price, date, comm, brokerage, add_basis, lot_ids) ==
    [tr_type |-> tr_type, ticker |-> ticker, amount |-> amount, price |-> price,
     date |-> date, comm |-> comm, brokerage |-> brokerage,
     add_basis |-> add_basis, lot_ids |-> lot_ids, sold |-> FALSE]

\* StockTransaction.lot_id
lot_id(tr) ==
    IF tr.tr_type = "buy" /\ Len(tr.lot_ids) > 0 THEN tr.lot_ids[1] ELSE NoLot

(***************************************************************************)
(* Dicts, lists and the Fifo                                                *)
(***************************************************************************)
Put(f, k, v) == [x \in (DOMAIN f) \cup {k} |-> IF x = k THEN v ELSE f[x]]
EmptyDict == [x \in {} |-> 0]

\* Fifo.push_front
push_front(data, elem) == <<elem>> \o data

\* a push that overwrites the storage instead of appending to it
push_overwrite(data, elem) == <<elem>>

\* Fifo.push
push(data, elem) == Append(data, elem)

\* a pop that removes the newest element instead of the oldest
pop_newest(data) == SubSeq(data, 1, Len(data) - 1)

\* Fifo.pop: the storage after the pop
pop(data) == Tail(data)

\* a remove that drops the head whatever x is
RemoveHead(data, x) == Tail(data)

\* list.remove(x): drops the first occurrence of x
RECURSIVE Remove(_, _)
Remove(data, x) ==
    IF data = <<>> THEN <<>>
    ELSE IF Head(data) = x THEN Tail(data)
    ELSE <<Head(data)>> \o Remove(Tail(data), x)

Elems(q) == {q[i] : i \in 1..Len(q)}

RECURSIVE SumAmounts(_, _)
SumAmounts(hp, q) ==
    IF q = <<>> THEN 0 ELSE hp[Head(q)].amount + SumAmounts(hp, Tail(q))

HasQueue(s, b, t) ==
    b \in DOMAIN s.buy_transactions /\ t \in DOMAIN s.buy_transactions[b]

Queue(s, b, t) == s.buy_transactions[b][t]

SetQueue(s, b, t, q) ==
    [s EXCEPT !.buy_transactions = Put(@, b, Put(@[b], t, q))]

\* object allocation: a constructor call or deepcopy
New(s, obj) == [s EXCEPT !.heap = Append(@, obj)]

\* StockTransactor.history_add
history_add(s, tr) ==
    LET s1 == New(s, tr)
    IN  [s1 EXCEPT !.history = Append(@, Len(s1.heap))]

\* StockTransactor.history_delete_last
history_delete_last(s) ==
    IF Len(s.history) > 0
    THEN [s EXCEPT !.history = SubSeq(@, 1, Len(@) - 1)]
    ELSE s

(***************************************************************************)
(* Model universe                                                          *)
(***************************************************************************)
Tickers == {"T", "U"}
Brokerages == {"A", "B"}
WashDays == 30

\* the engine as one record, so that the methods are operators on it
Self ==
    [heap |-> heap, buy_transactions |-> buy_transactions, sale_items |-> sale_items,
     history |-> history, file_transactions |-> file_transactions, splits |-> splits,
     washgroups |-> washgroups, wash_sales |-> wash_sales]

\* StockTransactor.__init__ before its call of rebuild()
NewEngine ==
    [heap |-> <<>>, buy_transactions |-> EmptyDict, sale_items |-> EmptyDict,
     history |-> <<>>, file_transactions |-> <<>>, splits |-> EmptyDict,
     washgroups |-> <<>>, wash_sales |-> [t \in Tickers |-> Zero]]

Result(s, status) == [st |-> s, status |-> status]

(***************************************************************************)
(* buy_transaction                                                         *)
(***************************************************************************)
\* buy_transaction, lines 425-430: the Fifo of the pair is created when absent
EnsureQueue(s, b, t) ==
    IF b \notin DOMAIN s.buy_transactions
    THEN [s EXCEPT !.buy_transactions = Put(@, b, Put(EmptyDict, t, <<>>))]
    ELSE IF t \notin DOMAIN s.buy_transactions[b] THEN SetQueue(s, b, t, <<>>)
    ELSE s

\* buy_transaction, lines 447-448
RecordBuy(s, id, skip_history) ==
    Result(IF skip_history THEN s ELSE history_add(s, s.heap[id]), "ok")

\* a buy that adds the carryover to its basis but leaves it outstanding
QueueBuyKeepCarryover(s, id, tr, skip_history) ==
    IF /\ Len(Queue(s, tr.brokerage, tr.ticker)) > 0
       /\ tr.date < s.heap[Queue(s, tr.brokerage, tr.ticker)[Len(Queue(s, tr.brokerage, tr.ticker))]].date
    THEN Result(s, "rejected")
    ELSE RecordBuy(SetQueue([s EXCEPT !.heap[id].add_basis = RAdd(@, s.wash_sales[tr.ticker])],
                            tr.brokerage, tr.ticker,
                            push(Queue(s, tr.brokerage, tr.ticker), id)),
                   id, skip_history)

\* a buy whose rejection for its date still clears the carryover
QueueBuyRejectConsumes(s, id, tr, skip_history) ==
    IF /\ Len(Queue(s, tr.brokerage, tr.ticker)) > 0
       /\ tr.date < s.heap[Queue(s, tr.brokerage, tr.ticker)[Len(Queue(s, tr.brokerage, tr.ticker))]].date
    THEN Result([s EXCEPT !.wash_sales[tr.ticker] = Zero], "rejected")
    ELSE RecordBuy(SetQueue([s EXCEPT !.heap[id].add_basis = RAdd(@, s.wash_sales[tr.ticker]),
                                      !.wash_sales[tr.ticker] = Zero],
                            tr.brokerage, tr.ticker,
                            push(Queue(s, tr.brokerage, tr.ticker), id)),
                   id, skip_history)

\* buy_transaction, lines 432-445: the date check, the carryover and the push
QueueBuy(s, id, tr, skip_history) ==
    IF /\ Len(Queue(s, tr.brokerage, tr.ticker)) > 0
       /\ tr.date < s.heap[Queue(s, tr.brokerage, tr.ticker)[Len(Queue(s, tr.brokerage, tr.ticker))]].date
    THEN Result(s, "rejected")
    ELSE RecordBuy(SetQueue([s EXCEPT !.heap[id].add_basis = RAdd(@, s.wash_sales[tr.ticker]),
                                      !.wash_sales[tr.ticker] = Zero],
                            tr.brokerage, tr.ticker,
                            push(Queue(s, tr.brokerage, tr.ticker), id)),
                   id, skip_history)

\* StockTransactor.buy_transaction; id is the transaction object
buy_transaction(s, id, skip_history) ==
    QueueBuy(EnsureQueue(s, s.heap[id].brokerage, s.heap[id].ticker), id, s.heap[id],
             skip_history)

(***************************************************************************)
(* Wash sale trigger search and sale item creation                         *)
(***************************************************************************)
\* a group whose members match only the tickers listed after them
matchesLater(wg, ticker) ==
    {wg[j] : j \in {k \in 1..Len(wg) : \E i \in 1..(k - 1) : wg[i] = ticker}} \ {ticker}

\* Command_WASHGROUP.matches
matches(wg, ticker) ==
    IF ticker \in Elems(wg) THEN Elems(wg) \ {ticker} ELSE {}

\* StockTransactor.find_wash_trigger: heap index of the trigger, 0 for None
find_wash_trigger(s, transaction) ==
    LET d == transaction.date
        m == {transaction.ticker} \cup
             UNION {matches(s.washgroups[i], transaction.ticker) : i \in 1..Len(s.washgroups)}
        hit(i) == LET tr == s.heap[s.file_transactions[i]]
                  IN  /\ tr.ticker \in m
                      /\ tr.tr_type = "buy"
                      /\ tr.date >= d - WashDays
                      /\ tr.date <= d + WashDays
                      /\ ~tr.sold
        hits == {i \in 1..Len(s.file_transactions) : hit(i)}
    IN  IF hits = {} THEN 0
        ELSE s.file_transactions[CHOOSE i \in hits : \A j \in hits : i <= j]

\* the gain before the commission is deducted
gain_before_comm(item) ==
    RSub(RMul(R(item.amount), item.sale_price), item.cost_basis)

\* SaleItem.__raw_gain / SaleItem.gain
gain(item) ==
    RSub(RSub(RMul(R(item.amount), item.sale_price), item.cost_basis), item.comm)

\* the value test_random expects of allowed_loss
allowed_loss_expected(item) ==
    IF item.wash /\ RLt(gain(item), Zero)
    THEN RMin(Zero, RAdd(gain(item), item.dis_wash_loss))
    ELSE Zero

\* SaleItem.allowed_loss
allowed_loss(item) ==
    IF item.wash /\ RLt(gain(item), Zero)
    THEN RAdd(gain(item), item.dis_wash_loss)
    ELSE RMin(Zero, gain(item))

\* SaleItem.__init__
SaleItem(brokerage, ticker, sale_price, amount, date_acquired, date_sold, cost_basis, comm, lotid) ==
    [brokerage |-> brokerage, ticker |-> ticker, sale_price |-> sale_price, comm |-> comm,
     amount |-> amount, date_acquired |-> date_acquired, date_sold |-> date_sold,
     cost_basis |-> cost_basis, lot_id |-> lotid, wash |-> FALSE, dis_wash_loss |-> Zero]

\* a cost basis that includes the buy commission for every fragment
cost_basis_with_comm(buy_tr, amount, buy_lot_completed) ==
    RAdd(RAdd(buy_tr.add_basis, RMul(buy_tr.price, R(amount))), buy_tr.comm)

\* StockTransactor.create_sale_item: the engine after the call, the item, and
\* create_sale_item, lines 602-604
cost_basis(buy_tr, amount, buy_lot_completed) ==
    IF buy_lot_completed
    THEN RAdd(RAdd(buy_tr.add_basis, RMul(buy_tr.price, R(amount))), buy_tr.comm)
    ELSE RAdd(buy_tr.add_basis, RMul(buy_tr.price, R(amount)))

\* create_sale_item, lines 631-641: the item flagged and the carryover stored
Washed(s, ticker, item, dis) ==
    [st |-> [s EXCEPT !.wash_sales[ticker] = dis],
     item |-> [item EXCEPT !.wash = TRUE, !.dis_wash_loss = dis],
     status |-> "ok"]

\* a wash check that lets a lot be the trigger of its own sale
WashCheckOwnLot(s, sell_tr, buy_id, amount, item, w) ==
    IF w # 0 /\ RLt(gain(item), Zero)
    THEN IF amount = 0
         THEN [st |-> s, item |-> item, status |-> "zero_div"]
         ELSE Washed(s, sell_tr.ticker, item,
                     RAbs(RMul(RDivInt(gain(item), amount),
                               R(Min(amount, s.heap[w].amount)))))
    ELSE [st |-> s, item |-> item, status |-> "ok"]

\* a wash check that disallows the loss per share on all the shares of the
\* trigger, however few shares are sold
WashCheckWholeTrigger(s, sell_tr, buy_id, amount, item, w) ==
    IF w # 0 /\ w # buy_id /\ RLt(gain(item), Zero)
    THEN IF amount = 0
         THEN [st |-> s, item |-> item, status |-> "zero_div"]
         ELSE Washed(s, sell_tr.ticker, item,
                     RAbs(RMul(RDivInt(gain(item), amount), R(s.heap[w].amount))))
    ELSE [st |-> s, item |-> item, status |-> "ok"]

\* create_sale_item, lines 629-643; w is the trigger found, 0 for None;
\* "zero_div" when gain_per_share divides by a zero amount
WashCheck(s, sell_tr, buy_id, amount, item, w) ==
    IF w # 0 /\ w # buy_id /\ RLt(gain(item), Zero)
    THEN IF amount = 0
         THEN [st |-> s, item |-> item, status |-> "zero_div"]
         ELSE Washed(s, sell_tr.ticker, item,
                     RAbs(RMul(RDivInt(gain(item), amount),
                               R(Min(amount, s.heap[w].amount)))))
    ELSE [st |-> s, item |-> item, status |-> "ok"]

\* a sale item that always carries the sell transaction's commission
create_sale_item_comm(s, sell_tr, buy_id, amount, buy_lot_completed, add_comm) ==
    WashCheck(s, sell_tr, buy_id, amount,
              SaleItem(sell_tr.brokerage, sell_tr.ticker, sell_tr.price, amount,
                       s.heap[buy_id].date, sell_tr.date,
                       cost_basis(s.heap[buy_id], amount, buy_lot_completed),
                       sell_tr.comm,
                       lot_id(s.heap[buy_id])),
              find_wash_trigger(s, sell_tr))

\* StockTransactor.create_sale_item
create_sale_item(s, sell_tr, buy_id, amount, buy_lot_completed, add_comm) ==
    WashCheck(s, sell_tr, buy_id, amount,
              SaleItem(sell_tr.brokerage, sell_tr.ticker, sell_tr.price, amount,
                       s.heap[buy_id].date, sell_tr.date,
                       cost_basis(s.heap[buy_id], amount, buy_lot_completed),
                       IF add_comm THEN sell_tr.comm ELSE Zero,
                       lot_id(s.heap[buy_id])),
              find_wash_trigger(s, sell_tr))

(***************************************************************************)
(* ReorderFifo                                                             *)
(***************************************************************************)
\* a view that keeps the named lots in the order of the wrapped Fifo
ReorderDataQueueOrder(hp, data, lot_ids) ==
    SelectSeq(data, LAMBDA e : lot_id(hp[e]) \in {lot_ids[i] : i \in 1..Len(lot_ids)})

\* ReorderFifo.__init__: the proxy data, for each requested id every
\* element of the wrapped Fifo that carries it
RECURSIVE ReorderData(_, _, _)
ReorderData(hp, data, lot_ids) ==
    IF lot_ids = <<>> THEN <<>>
    ELSE SelectSeq(data, LAMBDA e : lot_id(hp[e]) = Head(lot_ids))
         \o ReorderData(hp, data, Tail(lot_ids))

\* ReorderFifo.__init__: found_ids < len(lot_ids) raises
ReorderFails(hp, data, lot_ids) ==
    Len(ReorderData(hp, data, lot_ids)) < Len(lot_ids)

(***************************************************************************)
(* sell_transaction                                                        *)
(***************************************************************************)
\* the rewind of the popped entries (StockTransactor.py lines 537-540)
RECURSIVE ClearSold(_, _)
ClearSold(hp, popped) ==
    IF popped = <<>> THEN hp
    ELSE ClearSold([hp EXCEPT ![Head(popped)].sold = FALSE], Tail(popped))

\* a commit that lists the generated sale items before the earlier ones
PrependSales(s, d1, b, t, items) ==
    [s EXCEPT !.sale_items =
        Put(d1, b, Put(d1[b], t, items \o (IF t \in DOMAIN d1[b] THEN d1[b][t] ELSE <<>>)))]

\* a commit that appends the items to the list of every ticker of brokerage b
AppendSalesEveryTicker(s, d1, b, t, items) ==
    [s EXCEPT !.sale_items =
        Put(d1, b, [x \in (DOMAIN d1[b]) \cup {t} |->
                       (IF x \in DOMAIN d1[b] THEN d1[b][x] ELSE <<>>) \o items])]

\* the commit of the generated sale items (StockTransactor.py lines 580-585)
AppendSales(s, d1, b, t, items) ==
    [s EXCEPT !.sale_items =
        Put(d1, b, Put(d1[b], t, (IF t \in DOMAIN d1[b] THEN d1[b][t] ELSE <<>>) \o items))]

CommitSales(s, b, t, items) ==
    IF items = <<>> THEN s
    ELSE AppendSales(s, IF b \in DOMAIN s.sale_items THEN s.sale_items
                        ELSE Put(s.sale_items, b, EmptyDict), b, t, items)

\* the rewind of a sell that ran out of lots (StockTransactor.py lines 532-544)
Rollback(s, tr, popped_entries, skip_history) ==
    Result(IF skip_history
           THEN SetQueue([s EXCEPT !.heap = ClearSold(@, popped_entries)],
                         tr.brokerage, tr.ticker,
                         popped_entries \o Queue(s, tr.brokerage, tr.ticker))
           ELSE history_delete_last(
                    SetQueue([s EXCEPT !.heap = ClearSold(@, popped_entries)],
                             tr.brokerage, tr.ticker,
                             popped_entries \o Queue(s, tr.brokerage, tr.ticker))),
           "insufficient")

\* lines 552-561 and 571: the head is marked sold, and emptied when the
\* remaining amount consumes it exactly
MarkSold(s, h, rem_amount) ==
    IF s.heap[h].amount = rem_amount
    THEN [s EXCEPT !.heap[h].sold = TRUE, !.heap[h].amount = 0]
    ELSE [s EXCEPT !.heap[h].sold = TRUE]

\* fifo.pop() on the ReorderFifo (base and view) or on the Fifo itself
Popped(s, tr, proxy, h) ==
    SetQueue(s, tr.brokerage, tr.ticker,
             IF proxy THEN Remove(Queue(s, tr.brokerage, tr.ticker), h)
             ELSE pop(Queue(s, tr.brokerage, tr.ticker)))

\* the while loop of sell_transaction; proxy is TRUE when fifo is a
\* ReorderFifo, whose own data is view
RECURSIVE SellLoop(_, _, _, _, _, _, _, _)
\* lines 546-551: c is the result of create_sale_item for a part of the head h
SoldPart(c, tr, proxy, view, popped_entries, items, rem_amount, skip_history, h) ==
    IF c.status # "ok" THEN Result(c.st, c.status)
    ELSE SellLoop([c.st EXCEPT !.heap[h].amount = @ - rem_amount], tr, proxy, view,
                  popped_entries, Append(items, c.item), 0, skip_history)

\* lines 553-575: c is the result of create_sale_item for all of the head h,
\* rem the amount still to sell
SoldLot(c, tr, proxy, view, popped_entries, items, rem, skip_history, h) ==
    IF c.status # "ok" THEN Result(c.st, c.status)
    ELSE IF proxy /\ h \notin Elems(Queue(c.st, tr.brokerage, tr.ticker))
    THEN Result(c.st, "value_error")
    ELSE SellLoop(Popped(c.st, tr, proxy, h), tr, proxy,
                  IF proxy THEN pop(view) ELSE view,
                  Append(popped_entries, h), Append(items, c.item), rem, skip_history)

\* one iteration of the loop on the head h of a non-empty fifo
SellHead(s, tr, proxy, view, popped_entries, items, rem_amount, skip_history, h) ==
    IF s.heap[h].amount > rem_amount
    THEN SoldPart(create_sale_item(s, tr, h, rem_amount, FALSE, Len(items) = 0),
                  tr, proxy, view, popped_entries, items, rem_amount, skip_history, h)
    ELSE SoldLot(create_sale_item(MarkSold(s, h, rem_amount), tr, h, s.heap[h].amount,
                                  TRUE, Len(items) = 0),
                 tr, proxy, view, popped_entries, items, rem_amount - s.heap[h].amount,
                 skip_history, h)

SellLoop(s, tr, proxy, view, popped_entries, items, rem_amount, skip_history) ==
    IF ~(rem_amount > 0)
    THEN Result(CommitSales(s, tr.brokerage, tr.ticker, items), "ok")
    ELSE IF Len(IF proxy THEN view ELSE Queue(s, tr.brokerage, tr.ticker)) = 0
    THEN Rollback(s, tr, popped_entries, skip_history)
    ELSE SellHead(s, tr, proxy, view, popped_entries, items, rem_amount, skip_history,
                  IF proxy THEN view[1] ELSE Queue(s, tr.brokerage, tr.ticker)[1])

\* sell_transaction, lines 494-575: s is the engine after history_add, fifo
\* the queue of the pair
SellFrom(s, tr, fifo, skip_history) ==
    IF Len(tr.lot_ids) > 0 /\ ReorderFails(s.heap, fifo, tr.lot_ids)
    THEN Result(s, "lots_not_found")
    ELSE SellLoop(s, tr, Len(tr.lot_ids) > 0,
                  IF Len(tr.lot_ids) > 0 THEN ReorderData(s.heap, fifo, tr.lot_ids) ELSE <<>>,
                  <<>>, <<>>, tr.amount, skip_history)

\* sell_transaction, lines 485-492: the date check on the queue fifo
SellChecked(s, tr, fifo, skip_history) ==
    IF Len(fifo) > 0 /\ tr.date < s.heap[fifo[Len(fifo)]].date
    THEN Result(s, "rejected")
    ELSE SellFrom(IF skip_history THEN s ELSE history_add(s, tr), tr, fifo, skip_history)

\* a sell that is entered in the history before the queue is looked up
sell_transaction_recorded(s, tr, skip_history) ==
    IF ~HasQueue(s, tr.brokerage, tr.ticker) THEN Result(history_add(s, tr), "lookup")
    ELSE SellChecked(s, tr, Queue(s, tr.brokerage, tr.ticker), skip_history)

\* StockTransactor.sell_transaction; tr is the transaction's value
sell_transaction(s, tr, skip_history) ==
    IF ~HasQueue(s, tr.brokerage, tr.ticker) THEN Result(s, "lookup")
    ELSE SellChecked(s, tr, Queue(s, tr.brokerage, tr.ticker), skip_history)

\* StockTransactor.get_num_shares with a brokerage
get_num_shares(s, ticker, brokerage) ==
    IF brokerage \notin DOMAIN s.buy_transactions THEN 0
    ELSE IF ticker \notin DOMAIN s.buy_transactions[brokerage] THEN 0
    ELSE SumAmounts(s.heap, s.buy_transactions[brokerage][ticker])

RECURSIVE SumOver(_, _, _)
SumOver(s, ticker, bs) ==
    IF bs = {} THEN 0
    ELSE LET b == CHOOSE x \in bs : TRUE
         IN  (IF ticker \in DOMAIN s.buy_transactions[b]
              THEN SumAmounts(s.heap, s.buy_transactions[b][ticker]) ELSE 0)
             + SumOver(s, ticker, bs \ {b})

\* StockTransactor.get_num_shares without a brokerage
get_num_shares_all(s, ticker) == SumOver(s, ticker, DOMAIN s.buy_transactions)

(***************************************************************************)
(* The backing store, rebuild and undo                                     *)
(***************************************************************************)
\* a transaction line of the input file
TrLine(tr) == [kind |-> "tr", tr |-> tr]
\* a !SPLIT#ticker#amount#date line
SplitLine(ticker, amount, date) ==
    [kind |-> "SPLIT", ticker |-> ticker, amount |-> amount, date |-> date]
\* a !WASHGROUP#ticker#... line
WashGroupLine(tickers) == [kind |-> "WASHGROUP", tickers |-> tickers]

\* StockTransactor.process_command
process_command(s, line) ==
    IF line.kind = "SPLIT"
    THEN LET old == IF line.ticker \in DOMAIN s.splits THEN s.splits[line.ticker] ELSE <<>>
         IN  [s EXCEPT !.splits = Put(@, line.ticker, Append(old, line))]
    ELSE [s EXCEPT !.washgroups = Append(@, line.tickers)]

\* the reading loop of rebuild (StockTransactor.py lines 699-719)
RECURSIVE ReadFile(_, _)
ReadFile(s, lines) ==
    IF lines = <<>> THEN s
    ELSE LET line == Head(lines)
         IN  IF line.kind = "tr"
             THEN LET s1 == New(s, [line.tr EXCEPT !.sold = FALSE])
                  IN  ReadFile([s1 EXCEPT !.file_transactions = Append(@, Len(s1.heap))],
                               Tail(lines))
             ELSE ReadFile(process_command(s, line), Tail(lines))

\* sorted(..., key=date): stable insertion of x into a sorted list
RECURSIVE InsertByDate(_, _)
InsertByDate(sorted, x) ==
    IF sorted = <<>> THEN <<x>>
    ELSE IF x.date < Head(sorted).date THEN <<x>> \o sorted
    ELSE <<Head(sorted)>> \o InsertByDate(Tail(sorted), x)

RECURSIVE SortByDate(_, _)
SortByDate(done, rest) ==
    IF rest = <<>> THEN done
    ELSE SortByDate(InsertByDate(done, Head(rest)), Tail(rest))

\* a split applied to the buys of its ticker whatever their date
ApplySplitAnyDate(hp, ftr, split) ==
    [i \in DOMAIN hp |->
        IF /\ i \in Elems(ftr)
           /\ hp[i].tr_type = "buy"
           /\ hp[i].ticker = split.ticker
        THEN [hp[i] EXCEPT !.amount = @ * split.amount,
                           !.price = RDivInt(@, split.amount)]
        ELSE hp[i]]

\* one split applied to the buys of its ticker dated on or before it
ApplySplit(hp, ftr, split) ==
    [i \in DOMAIN hp |->
        IF /\ i \in Elems(ftr)
           /\ hp[i].tr_type = "buy"
           /\ hp[i].ticker = split.ticker
           /\ hp[i].date <= split.date
        THEN [hp[i] EXCEPT !.amount = @ * split.amount,
                           !.price = RDivInt(@, split.amount)]
        ELSE hp[i]]

RECURSIVE ApplySplits(_, _, _)
ApplySplits(hp, ftr, ss) ==
    IF ss = <<>> THEN hp
    ELSE ApplySplits(ApplySplit(hp, ftr, Head(ss)), ftr, Tail(ss))

RECURSIVE SplitTickers(_, _)
SplitTickers(s, ts) ==
    IF ts = {} THEN s
    ELSE LET t == CHOOSE x \in ts : TRUE
         IN  SplitTickers([s EXCEPT !.heap = ApplySplits(@, s.file_transactions, s.splits[t])],
                          ts \ {t})

\* StockTransactor.split_stocks
split_stocks(s) ==
    LET s1 == [s EXCEPT !.splits = [t \in DOMAIN s.splits |-> SortByDate(<<>>, s.splits[t])]]
    IN  SplitTickers(s1, DOMAIN s1.splits)

\* replay of a list of transactions through buy_transaction / sell_transaction
\* with skip_history=True; an exception ends the replay
RECURSIVE Replay(_, _)
\* r is the outcome of the transaction just replayed
ReplayRest(r, ids) ==
    IF r.status \in {"ok", "rejected"} THEN Replay(r.st, ids) ELSE r

Replay(s, ids) ==
    IF ids = <<>> THEN Result(s, "ok")
    ELSE ReplayRest(IF s.heap[Head(ids)].tr_type = "buy"
                    THEN buy_transaction(s, Head(ids), TRUE)
                    ELSE sell_transaction(s, s.heap[Head(ids)], TRUE),
                    Tail(ids))

\* rebuild, lines 738-744
ReplayFile(s) == Replay(s, s.file_transactions)

\* StockTransactor.rebuild (the file exists, clear_history=False)
rebuild(s, lines) ==
    ReplayFile(split_stocks(ReadFile([s EXCEPT !.buy_transactions = EmptyDict], lines)))

\* undo, lines 656-661: r is the outcome of the rebuild
ReplayHistory(r) ==
    IF r.status # "ok" THEN r ELSE Replay(r.st, r.st.history)

\* StockTransactor.undo
undo(s, lines) ==
    IF Len(s.history) > 0
    THEN ReplayHistory(rebuild(history_delete_last(s), lines))
    ELSE Result(s, "nothing")

\* StockTransactor.buy_transaction called on a new StockTransaction
buy(s, tr) == buy_transaction(New(s, tr), Len(s.heap) + 1, FALSE)

\* StockTransactor.sell_transaction called on a new StockTransaction
sell(s, tr) == sell_transaction(s, tr, FALSE)

(***************************************************************************)
(* Garbage: objects nothing refers to any more                             *)
(***************************************************************************)
Reachable(s) ==
    Elems(s.history) \cup Elems(s.file_transactions) \cup
    UNION {UNION {Elems(s.buy_transactions[b][t]) : t \in DOMAIN s.buy_transactions[b]} :
             b \in DOMAIN s.buy_transactions}

\* the value standing for no transaction and for a freed object
NoTr == StockTransaction("none", "", 0, Zero, 0, Zero, "", Zero, <<>>)

RECURSIVE DropFreedTail(_)
DropFreedTail(hp) ==
    IF hp # <<>> /\ hp[Len(hp)] = NoTr THEN DropFreedTail(SubSeq(hp, 1, Len(hp) - 1)) ELSE hp

\* reference-counting collection: unreachable objects are freed
Collect(s) ==
    LET live == Reachable(s)
    IN  [s EXCEPT !.heap = DropFreedTail([i \in DOMAIN s.heap |->
                                            IF i \in live THEN s.heap[i] ELSE NoTr])]

(***************************************************************************)
(* Actions                                                                 *)
(***************************************************************************)
MaxCalls == 3

Install(s) ==
    /\ heap' = s.heap
    /\ buy_transactions' = s.buy_transactions
    /\ sale_items' = s.sale_items
    /\ history' = s.history
    /\ file_transactions' = s.file_transactions
    /\ splits' = s.splits
    /\ washgroups' = s.washgroups
    /\ wash_sales' = s.wash_sales

\* the state after StockTransactor(input_file_name) returned r on the store f
Constructed(f, r) ==
    /\ r.status = "ok"
    /\ file = f
    /\ heap = r.st.heap
    /\ buy_transactions = r.st.buy_transactions
    /\ sale_items = r.st.sale_items
    /\ history = r.st.history
    /\ file_transactions = r.st.file_transactions
    /\ splits = r.st.splits
    /\ washgroups = r.st.washgroups
    /\ wash_sales = r.st.wash_sales
    /\ last = [op |-> "init", status |-> "ok", tr |-> NoTr]
    /\ calls = 0
    /\ applied = <<>>

\* the states after StockTransactor(input_file_name) for the stores on which
\* the constructor does not raise
InitFrom(Files) == \E f \in Files : Constructed(f, rebuild(NewEngine, f))

\* the transactions of the session's accepted calls, oldest first; a call
\* that raised after history_add is recorded as NoTr
Applied(r, tr) ==
    IF r.status = "ok" THEN Append(applied, tr)
    ELSE IF Len(r.st.history) > Len(history) THEN Append(applied, NoTr)
    ELSE applied

\* a call of the session with outcome r
Called(op, tr, r) ==
    /\ calls < MaxCalls
    /\ Install(Collect(r.st))
    /\ last' = [op |-> op, status |-> r.status, tr |-> tr]
    /\ calls' = calls + 1
    /\ UNCHANGED file

\* a buy of the session
Buy(tr) ==
    LET r == buy(Self, tr)
    IN  Called("buy", tr, r) /\ applied' = Applied(r, tr)

\* a sell of the session
Sell(tr) ==
    LET r == sell(Self, tr)
    IN  Called("sell", tr, r) /\ applied' = Applied(r, tr)

Undo ==
    /\ Called("undo", NoTr, undo(Self, file))
    /\ applied' = IF Len(history) > 0 THEN SubSeq(applied, 1, Len(applied) - 1) ELSE applied

Rebuild ==
    /\ Called("rebuild", NoTr, rebuild(Self, file))
    /\ UNCHANGED applied

(***************************************************************************)
(* Specification: a store of at most MaxFile lines is loaded, then the     *)
(* session buys, sells, undoes and rebuilds                                *)
(***************************************************************************)
MaxFile == 2
MaxAmount == 2
Dates == {0, WashDays}
Amounts == 1..MaxAmount

RECURSIVE SeqsUpTo(_, _)
SeqsUpTo(S, n) ==
    IF n = 0 THEN {<<>>}
    ELSE LET shorter == SeqsUpTo(S, n - 1)
         IN  shorter \cup {Append(q, x) : q \in {y \in shorter : Len(y) = n - 1}, x \in S}

\* buys at brokerage A: plain lots without commission on either date and
\* tagged lots "a" with commission; one plain lot at brokerage B
BuyInputs ==
    {StockTransaction("buy", "T", a, R(2), d, Zero, "A", Zero, <<>>) :
        a \in Amounts, d \in Dates}
    \cup {StockTransaction("buy", "T", a, R(2), 0, R(1), "A", Zero, <<"a">>) : a \in Amounts}
    \cup {StockTransaction("buy", "T", 1, R(2), 0, Zero, "B", Zero, <<>>)}

\* FIFO sells at a gain (price 3, early) and at a loss (price 1, late)
FifoSellInputs ==
    {StockTransaction("sell", "T", a, pd[1], pd[2], Zero, "A", Zero, <<>>) :
        a \in 1..(MaxAmount + 1), pd \in {<<R(3), 0>>, <<R(1), WashDays>>}}
    \cup {StockTransaction("sell", "T", 1, R(3), WashDays, Zero, "B", Zero, <<>>)}

\* sells that name lot "a", once or twice
LotSellInputs ==
    {StockTransaction("sell", "T", a, R(3), WashDays, Zero, "A", Zero, <<"a">>) :
        a \in 1..(MaxAmount + 1)}
    \cup {StockTransaction("sell", "T", MaxAmount + 1, R(3), WashDays, Zero, "A", Zero,
                           <<"a", "a">>)}

SellInputs == FifoSellInputs \cup LotSellInputs

FileLines ==
    {TrLine(tr) : tr \in {x \in BuyInputs : x.brokerage = "A" /\ x.date = 0}}
    \cup {TrLine(StockTransaction("sell", "T", 1, R(1), 0, Zero, "A", Zero, <<>>))}

Files == SeqsUpTo(FileLines, MaxFile)

Init == InitFrom(Files)

Next ==
    \/ \E tr \in BuyInputs : Buy(tr)
    \/ \E tr \in SellInputs : Sell(tr)
    \/ Undo
    \/ Rebuild

Spec == Init /\ [][Next]_vars

TypeOK == calls <= MaxCalls

(***************************************************************************)
(* Observations                                                            *)
(***************************************************************************)
QueueOf(s, b, t) == IF HasQueue(s, b, t) THEN Queue(s, b, t) ELSE <<>>

SalesOf(s, b, t) ==
    IF b \in DOMAIN s.sale_items /\ t \in DOMAIN s.sale_items[b]
    THEN s.sale_items[b][t] ELSE <<>>

\* current_holdings with the identity of every lot
HoldingsById(s) ==
    [b \in Brokerages |-> [t \in Tickers |->
        [i \in 1..Len(QueueOf(s, b, t)) |->
            <<QueueOf(s, b, t)[i], s.heap[QueueOf(s, b, t)[i]]>>]]]

\* current_holdings as the values of the lots
HoldingsByValue(s) ==
    [b \in Brokerages |-> [t \in Tickers |->
        [i \in 1..Len(QueueOf(s, b, t)) |-> s.heap[QueueOf(s, b, t)[i]]]]]

\* sales as values
Ledger(s) == [b \in Brokerages |-> [t \in Tickers |-> SalesOf(s, b, t)]]

\* the engine StockTransactor(file) constructs
Fresh(f) == rebuild(NewEngine, f).st

\* the engine after the given transactions were issued in the session
RECURSIVE Issue(_, _)
Issue(s, trs) ==
    IF trs = <<>> THEN s
    ELSE Issue(IF Head(trs).tr_type = "buy" THEN buy(s, Head(trs)).st
               ELSE sell(s, Head(trs)).st, Tail(trs))

(***************************************************************************)
(* Claims                                                                  *)
(***************************************************************************)
\* the step is a session sell that ended in the insufficient-lots rollback
SellFailedStep == last'.op = "sell" /\ last'.status = "insufficient"

\* C1: a sell that fails because the working queue runs out of lots leaves
\* the holdings (lots, order, amounts, disposed flags) and the sales ledger
\* as they were before the call.
C1_FailedSellRestoresHoldings ==
    [][SellFailedStep =>
          /\ HoldingsById(Self') = HoldingsById(Self)
          /\ Ledger(Self') = Ledger(Self)]_vars

\* C2: a sell that fails with insufficient lots leaves the wash carryover
\* of every ticker as it was before the call.
C2_FailedSellRestoresCarryover ==
    [][SellFailedStep => wash_sales' = wash_sales]_vars

\* C3: after undo() the holdings, the sales ledger and the wash carryover
\* equal those of a fresh engine loaded from the same store to which the
\* accepted transactions but the last were applied.
C3_UndoEqualsNeverIssued ==
    [][(/\ last'.op = "undo"
        /\ last'.status = "ok"
        /\ Len(applied) > 0
        /\ NoTr \notin Elems(applied))
       => LET ref == Issue(Fresh(file), applied')
          IN  /\ HoldingsByValue(Self') = HoldingsByValue(ref)
              /\ Ledger(Self') = Ledger(ref)
              /\ wash_sales' = ref.wash_sales]_vars

\* C4: rebuild() called twice in succession yields the holdings and the
\* sales ledger of the first rebuild().
C4_RebuildIdempotent ==
    [][(/\ last.op \in {"init", "rebuild"}
        /\ last.status = "ok"
        /\ last'.op = "rebuild"
        /\ last'.status = "ok")
       => /\ HoldingsByValue(Self') = HoldingsByValue(Self)
          /\ Ledger(Self') = Ledger(Self)]_vars

\* C5: after rebuild() the lot queues and the sales ledger contain only what
\* results from replaying the backing store.
C5_RebuildReplaysStoreOnly ==
    (last.op = "rebuild" /\ last.status = "ok") =>
        /\ HoldingsByValue(Self) = HoldingsByValue(Fresh(file))
        /\ Ledger(Self) = Ledger(Fresh(file))

(***************************************************************************)
(* Sells without lot identifiers                                           *)
(***************************************************************************)
\* the step is a successful session sell without lot identifiers
FifoSellStep ==
    last'.op = "sell" /\ last'.status = "ok" /\ last'.tr.lot_ids = <<>>

\* what an oldest-first sell of tr must do to the queue q of engine s,
\* giving engine s2
FifoPost(s, s2, tr) ==
    LET b == tr.brokerage
        t == tr.ticker
        q == QueueOf(s, b, t)
        n == Len(q)
        lot(i) == s.heap[q[i]]
        Cum(i) == SumAmounts(s.heap, SubSeq(q, 1, i))
        k == CHOOSE i \in 1..n : Cum(i) >= tr.amount /\ \A j \in 1..(i - 1) : Cum(j) < tr.amount
        taken(i) == IF i < k THEN lot(i).amount ELSE tr.amount - Cum(k - 1)
        completed(i) == i < k \/ Cum(k) = tr.amount
        old == SalesOf(s, b, t)
        new == SalesOf(s2, b, t)
        rec(i) == new[Len(old) + i]
    IN  /\ \E i \in 1..n : Cum(i) >= tr.amount
        /\ Len(new) = Len(old) + k
        /\ SubSeq(new, 1, Len(old)) = old
        /\ \A i \in 1..k :
              /\ rec(i).amount = taken(i)
              /\ rec(i).date_acquired = lot(i).date
              /\ rec(i).lot_id = lot_id(lot(i))
              /\ rec(i).cost_basis =
                    RAdd(RAdd(lot(i).add_basis, RMul(lot(i).price, R(taken(i)))),
                         IF completed(i) THEN lot(i).comm ELSE Zero)
        /\ QueueOf(s2, b, t) = SubSeq(q, IF Cum(k) = tr.amount THEN k + 1 ELSE k, n)
        /\ Cum(k) > tr.amount =>
              s2.heap[q[k]] = [lot(k) EXCEPT !.amount = Cum(k) - tr.amount]
        /\ \A i \in (k + 1)..n : s2.heap[q[i]] = lot(i)

\* C6: a successful sell without lot identifiers consumes the lots oldest
\* first: one record per lot L1..Lk in order, L1..L(k-1) in full and Lk for
\* the remainder, each with the date and the cost of its own lot, and the
\* queue keeps Lk (reduced, if not exhausted) and L(k+1)..Ln unchanged.
C6_FifoOldestFirst ==
    [][FifoSellStep => FifoPost(Self, Self', last'.tr)]_vars

\* one sell took all of the first lot and a part of the second
C6_Witness ==
    /\ last.op = "sell" /\ last.status = "ok" /\ last.tr.lot_ids = <<>>
    /\ Len(SalesOf(Self, "A", "T")) = 2
    /\ Len(QueueOf(Self, "A", "T")) = 1
    /\ Self.heap[QueueOf(Self, "A", "T")[1]].amount = 1
    /\ SalesOf(Self, "A", "T")[1].lot_id # SalesOf(Self, "A", "T")[2].lot_id

(***************************************************************************)
(* Shares outstanding                                                      *)
(***************************************************************************)
RECURSIVE SumApplied(_, _, _, _)
SumApplied(trs, kind, b, t) ==
    IF trs = <<>> THEN 0
    ELSE (IF Head(trs).tr_type = kind /\ Head(trs).brokerage = b /\ Head(trs).ticker = t
          THEN Head(trs).amount ELSE 0) + SumApplied(Tail(trs), kind, b, t)

\* C7 as stated: every buy of a sequence of buys adds its amount to the
\* shares outstanding of its (brokerage, ticker).
C7_EveryBuyCounted ==
    [][last'.op = "buy" =>
          get_num_shares(Self', last'.tr.ticker, last'.tr.brokerage)
            = get_num_shares(Self, last'.tr.ticker, last'.tr.brokerage) + last'.tr.amount]_vars

\* C7 (amended): after a sequence of buys with no intervening sells on an
\* empty engine, the shares outstanding of every (brokerage, ticker) equal
\* the sum of the amounts of the accepted buys.
C7_SharesEqualAcceptedBuys ==
    \A b \in Brokerages, t \in Tickers :
        get_num_shares(Self, t, b) = SumApplied(applied, "buy", b, t)

\* two buys were accepted on one pair and a third, older one was rejected
C7_Witness ==
    /\ last.op = "buy" /\ last.status = "rejected"
    /\ Len(applied) = 2
    /\ get_num_shares(Self, "T", "A") = applied[1].amount + applied[2].amount

(***************************************************************************)
(* Specification of buys only, on an empty store                           *)
(***************************************************************************)
InitBuys == InitFrom({<<>>})

NextBuys == \E tr \in BuyInputs : Buy(tr)

SpecBuys == InitBuys /\ [][NextBuys]_vars

(***************************************************************************)
(* Specification of a session on an empty store                            *)
(***************************************************************************)
InitSession == InitFrom({<<>>})

SpecSession == InitSession /\ [][Next]_vars

(***************************************************************************)
(* Conservation of shares                                                  *)
(***************************************************************************)
\* the change of the shares outstanding that a buy or sell call with the
\* given outcome must cause
Delta(tr, status) ==
    IF status # "ok" THEN 0
    ELSE IF tr.tr_type = "buy" THEN tr.amount ELSE 0 - tr.amount

\* C8: every buy or sell call changes the shares outstanding of its
\* (brokerage, ticker) by exactly the amount bought (accepted buy), by minus
\* the amount sold (successful sell) or not at all (refused call), and the
\* shares of a ticker over all brokerages are the sum over the brokerages.
C8_SharesConserved ==
    [][last'.op \in {"buy", "sell"} =>
          LET tr == last'.tr
          IN  /\ get_num_shares(Self', tr.ticker, tr.brokerage)
                   = get_num_shares(Self, tr.ticker, tr.brokerage) + Delta(tr, last'.status)
              /\ \A t \in Tickers :
                    get_num_shares_all(Self', t)
                      = get_num_shares(Self', t, "A") + get_num_shares(Self', t, "B")]_vars

(***************************************************************************)
(* Selling the whole position                                              *)
(***************************************************************************)
\* the date of tr is not before the newest lot of its queue
DateAccepted(s, tr) ==
    LET q == QueueOf(s, tr.brokerage, tr.ticker)
    IN  q = <<>> \/ tr.date >= s.heap[q[Len(q)]].date

\* C9: a sell without lot identifiers, dated no earlier than the newest lot,
\* of exactly the shares outstanding of its (brokerage, ticker) succeeds,
\* empties the queue and leaves every lot that was queued marked disposed.
C9_SellAllEmptiesQueue ==
    \A tr \in FifoSellInputs :
        (/\ calls < MaxCalls
         /\ HasQueue(Self, tr.brokerage, tr.ticker)
         /\ DateAccepted(Self, tr)
         /\ tr.amount = get_num_shares(Self, tr.ticker, tr.brokerage))
        => LET r == sell(Self, tr)
           IN  /\ r.status = "ok"
               /\ Queue(r.st, tr.brokerage, tr.ticker) = <<>>
               /\ \A i \in Elems(QueueOf(Self, tr.brokerage, tr.ticker)) : r.st.heap[i].sold

(***************************************************************************)
(* Wash sales                                                              *)
(***************************************************************************)
\* the buys of the store that replace shares sold at a loss by tr, other
\* than the lot the shares came from
Qualifying(s, tr, own) ==
    {i \in Elems(s.file_transactions) :
        /\ i # own
        /\ s.heap[i].tr_type = "buy"
        /\ ~s.heap[i].sold
        /\ \/ s.heap[i].ticker = tr.ticker
           \/ \E g \in Elems(s.washgroups) : matches(g, tr.ticker) /\ matches(g, s.heap[i].ticker)
        /\ Abs(s.heap[i].date - tr.date) <= WashDays}

\* C10: when a sell without lot identifiers produces one record at a loss
\* and the store holds a qualifying buy, the record is flagged as a wash
\* sale and its disallowed loss is the loss per share times the smaller of
\* the record's amount and the amount of a qualifying buy.
C10_WashFlaggedWhenBuyQualifies ==
    [][FifoSellStep =>
          LET tr == last'.tr
              old == SalesOf(Self, tr.brokerage, tr.ticker)
              new == SalesOf(Self', tr.brokerage, tr.ticker)
              own == QueueOf(Self, tr.brokerage, tr.ticker)[1]
              rec == new[Len(new)]
          IN  (/\ Len(new) = Len(old) + 1
               /\ RLt(gain(rec), Zero)
               /\ Qualifying(Self, tr, own) # {})
              => /\ rec.wash
                 /\ \E i \in Qualifying(Self, tr, own) :
                       rec.dis_wash_loss
                         = RMul(RAbs(RDivInt(gain(rec), rec.amount)),
                                R(Min(rec.amount, Self.heap[i].amount)))]_vars

(***************************************************************************)
(* Specification of a session on a store of two lots of each ticker: the    *)
(* first loss sale of a ticker is a wash sale and leaves a carryover        *)
(***************************************************************************)
WashStore ==
    <<TrLine(StockTransaction("buy", "T", 1, R(2), 0, Zero, "A", Zero, <<>>)),
      TrLine(StockTransaction("buy", "T", 1, R(2), 0, Zero, "A", Zero, <<>>)),
      TrLine(StockTransaction("buy", "U", 1, R(2), 0, Zero, "A", Zero, <<>>)),
      TrLine(StockTransaction("buy", "U", 1, R(2), 0, Zero, "A", Zero, <<>>))>>

\* buys of T at either brokerage on either date, and a late buy of U
WashBuyInputs ==
    {StockTransaction("buy", "T", 1, R(2), d, Zero, b, Zero, <<>>) :
        d \in Dates, b \in Brokerages}
    \cup {StockTransaction("buy", "U", 1, R(2), WashDays, Zero, "A", Zero, <<>>)}

\* late sells at a loss of either ticker, an early sell at a gain, and a
\* sell at brokerage B
WashSellInputs ==
    {StockTransaction("sell", t, 1, R(1), WashDays, Zero, "A", Zero, <<>>) : t \in Tickers}
    \cup {StockTransaction("sell", "T", 1, R(3), 0, Zero, "A", Zero, <<>>)}
    \cup {StockTransaction("sell", "T", 1, R(1), WashDays, Zero, "B", Zero, <<>>)}

InitWash == InitFrom({WashStore})

NextWash ==
    \/ \E tr \in WashBuyInputs : Buy(tr)
    \/ \E tr \in WashSellInputs : Sell(tr)

SpecWash == InitWash /\ [][NextWash]_vars

\* the lot at the tail of the queue of tr's pair in engine s
TailLot(s, tr) ==
    s.heap[Queue(s, tr.brokerage, tr.ticker)[Len(Queue(s, tr.brokerage, tr.ticker))]]

\* C11: an accepted buy of ticker T, at any brokerage, has its additional
\* basis increased by exactly the outstanding carryover of T, the carryover
\* of T becomes zero and that of every other ticker is unchanged; a buy of T
\* that directly follows an accepted buy of T receives nothing.
C11_BuyConsumesCarryover ==
    [][(last'.op = "buy" /\ last'.status = "ok") =>
          /\ TailLot(Self', last'.tr).add_basis
                = RAdd(last'.tr.add_basis, wash_sales[last'.tr.ticker])
          /\ wash_sales'[last'.tr.ticker] = Zero
          /\ \A u \in Tickers \ {last'.tr.ticker} : wash_sales'[u] = wash_sales[u]
          /\ (last.op = "buy" /\ last.status = "ok" /\ last.tr.ticker = last'.tr.ticker)
                => TailLot(Self', last'.tr).add_basis = last'.tr.add_basis]_vars

\* a buy of T took the carryover of T while the carryover of U stayed
C11_Witness ==
    /\ last.op = "buy" /\ last.status = "ok" /\ last.tr.ticker = "T"
    /\ TailLot(Self, last.tr).add_basis = R(1)
    /\ wash_sales["T"] = Zero
    /\ wash_sales["U"] = R(1)

(***************************************************************************)
(* Refused calls                                                           *)
(***************************************************************************)
\* C13: a sell for a (brokerage, ticker) pair that has no lot queue fails
\* with the lookup error and leaves the holdings, the sales ledger, the
\* wash carryover and the session history (the whole engine) unchanged.
C13_SellWithoutQueueChangesNothing ==
    [][(last'.op = "sell" /\ ~HasQueue(Self, last'.tr.brokerage, last'.tr.ticker)) =>
          /\ last'.status = "lookup"
          /\ Self' = Self]_vars

\* a sell at a brokerage never bought at failed while a carryover and a
\* ledger entry existed
C13_Witness ==
    /\ last.op = "sell" /\ last.status = "lookup"
    /\ wash_sales["T"] = R(1)
    /\ Len(SalesOf(Self, "A", "T")) = 1
    /\ Len(history) = 1

\* the queue of tr's pair holds a lot dated after tr
Older(s, tr) ==
    /\ QueueOf(s, tr.brokerage, tr.ticker) # <<>>
    /\ tr.date < TailLot(s, tr).date

\* C14: a buy or a sell dated before the lot at the tail of the queue of its
\* (brokerage, ticker) is rejected and leaves the holdings, the sales
\* ledger, the session history and the wash carryover (the whole engine)
\* unchanged, so the next call finds the state it would have found without it.
C14_OlderDateRejected ==
    [][(last'.op \in {"buy", "sell"} /\ Older(Self, last'.tr)) =>
          /\ last'.status = "rejected"
          /\ Self' = Self]_vars

\* a buy was rejected for its date while a carryover of its ticker was
\* outstanding
C14_Witness ==
    /\ last.op = "buy" /\ last.status = "rejected"
    /\ wash_sales[last.tr.ticker] = R(1)
    /\ Len(history) = 2

(***************************************************************************)
(* Specification of a session on an empty store with tagged lots and sells  *)
(* that name lot identifiers and carry a commission                         *)
(***************************************************************************)
\* lots tagged "a" of every amount, a lot tagged "b" and an untagged lot
LotBuyInputs ==
    {StockTransaction("buy", "T", a, R(2), 0, Zero, "A", Zero, <<"a">>) : a \in Amounts}
    \cup {StockTransaction("buy", "T", 1, R(2), 0, Zero, "A", Zero, <<"b">>),
          StockTransaction("buy", "T", 1, R(2), 0, Zero, "A", Zero, <<>>)}

LotIdLists == {<<>>, <<"a">>, <<"a", "b">>, <<"b", "a">>, <<"a", "a">>}

\* sells with commission 1, oldest first or of the named lots
LotsSellInputs ==
    {StockTransaction("sell", "T", a, R(3), WashDays, R(1), "A", Zero, ids) :
        a \in 1..(MaxAmount + 1), ids \in LotIdLists}

InitLots == InitFrom({<<>>})

NextLots ==
    \/ \E tr \in LotBuyInputs : Buy(tr)
    \/ \E tr \in LotsSellInputs : Sell(tr)

SpecLots == InitLots /\ [][NextLots]_vars

\* the records that the sell tr added to the ledger between s and s2
NewSales(s, s2, tr) ==
    SubSeq(SalesOf(s2, tr.brokerage, tr.ticker),
           Len(SalesOf(s, tr.brokerage, tr.ticker)) + 1,
           Len(SalesOf(s2, tr.brokerage, tr.ticker)))

\* C12: the first record that a successful sell generates carries the
\* sell's commission and every later record of the same sell carries
\* commission 0.
C12_CommissionOnFirstRecord ==
    [][(last'.op = "sell" /\ last'.status = "ok") =>
          /\ Len(NewSales(Self, Self', last'.tr)) >= 1
          /\ NewSales(Self, Self', last'.tr)[1].comm = last'.tr.comm
          /\ \A i \in 2..Len(NewSales(Self, Self', last'.tr)) :
                NewSales(Self, Self', last'.tr)[i].comm = Zero]_vars

\* the only successful sell of the session generated two records
C12_Witness ==
    /\ last.op = "sell" /\ last.status = "ok" /\ last.tr.comm = R(1)
    /\ SumApplied(applied, "sell", "A", "T") = last.tr.amount
    /\ Len(SalesOf(Self, "A", "T")) = 2
    /\ SalesOf(Self, "A", "T")[1].comm = R(1)
    /\ SalesOf(Self, "A", "T")[2].comm = Zero

(***************************************************************************)
(* Sells that name lot identifiers                                         *)
(***************************************************************************)
\* the identifiers carried by the lots of the queue of tr's pair
QueuedIds(s, tr) ==
    {lot_id(s.heap[e]) : e \in Elems(QueueOf(s, tr.brokerage, tr.ticker))}

\* C17: a sell that names a lot identifier carried by no lot of the base
\* queue fails with the lots-not-found error, whatever the queue holds, and
\* leaves the base queue unchanged.
C17_MissingLotFails ==
    [][(/\ last'.op = "sell"
        /\ HasQueue(Self, last'.tr.brokerage, last'.tr.ticker)
        /\ ~Older(Self, last'.tr)
        /\ \E i \in 1..Len(last'.tr.lot_ids) :
              last'.tr.lot_ids[i] \notin QueuedIds(Self, last'.tr))
       => /\ last'.status = "lots_not_found"
          /\ HoldingsById(Self') = HoldingsById(Self)]_vars

\* the step is a successful session sell that names lot identifiers
LotSellStep ==
    last'.op = "sell" /\ last'.status = "ok" /\ last'.tr.lot_ids # <<>>

\* the position of the first occurrence of id in the list ids
IdPos(ids, id) == CHOOSE i \in 1..Len(ids) : ids[i] = id /\ \A j \in 1..(i - 1) : ids[j] # id

\* what a sell tr of the lots named by tr.lot_ids must do between the
\* engines s and s2, given the records recs that it generated
LotOrderPost(s, s2, tr, recs) ==
    LET pre == QueueOf(s, tr.brokerage, tr.ticker)
        post == QueueOf(s2, tr.brokerage, tr.ticker)
        ids == tr.lot_ids
        named == {ids[i] : i \in 1..Len(ids)}
    IN  /\ \A i \in 1..Len(recs) : recs[i].lot_id \in named
        /\ \A i \in 1..Len(recs), j \in 1..Len(recs) :
              i < j => IdPos(ids, recs[i].lot_id) <= IdPos(ids, recs[j].lot_id)
        /\ (ids[1] \in QueuedIds(s, tr)) => recs[1].lot_id = ids[1]
        /\ \A i \in 1..(Len(recs) - 1) :
              \E e \in Elems(pre) :
                 /\ lot_id(s.heap[e]) = recs[i].lot_id
                 /\ s.heap[e].amount = recs[i].amount
                 /\ s.heap[e].date = recs[i].date_acquired
                 /\ e \notin Elems(post)
        /\ \A i \in 1..Len(recs), e \in Elems(pre) :
              (/\ lot_id(s.heap[e]) \in named
               /\ IdPos(ids, lot_id(s.heap[e])) < IdPos(ids, recs[i].lot_id))
              => e \notin Elems(post)
        /\ \A e \in Elems(pre) :
              lot_id(s.heap[e]) \notin named
              => e \in Elems(post) /\ s2.heap[e] = s.heap[e]

\* C18: a successful sell that names lot identifiers i1..ik generates its
\* records against lots carrying those identifiers, in the order i1, i2, ...
\* whatever the lots' positions in the base queue; every record but the
\* last takes a lot in full, a lot of a later identifier is touched only
\* when all lots of the earlier identifiers are gone, and no lot whose
\* identifier is not named is consumed.
C18_LotsInCallerOrder ==
    [][LotSellStep => LotOrderPost(Self, Self', last'.tr, NewSales(Self, Self', last'.tr))]_vars

\* lot "a" was bought before lot "b" and one sell naming b, a took b first
C18_Witness ==
    /\ last.op = "sell" /\ last.status = "ok" /\ last.tr.lot_ids = <<"b", "a">>
    /\ SumApplied(applied, "sell", "A", "T") = last.tr.amount
    /\ Len(applied) = 3 /\ lot_id(applied[1]) = "a" /\ lot_id(applied[2]) = "b"
    /\ Len(SalesOf(Self, "A", "T")) = 2
    /\ SalesOf(Self, "A", "T")[1].lot_id = "b"
    /\ SalesOf(Self, "A", "T")[2].lot_id = "a"

\* what a sell tr of named lots must leave of the base queue
MirrorPost(s, s2, tr, recs) ==
    LET pre == QueueOf(s, tr.brokerage, tr.ticker)
        post == QueueOf(s2, tr.brokerage, tr.ticker)
        named == {tr.lot_ids[i] : i \in 1..Len(tr.lot_ids)}
        removed == Elems(pre) \ Elems(post)
        changed == {e \in Elems(post) : s2.heap[e] # s.heap[e]}
    IN  /\ post = SelectSeq(pre, LAMBDA e : e \in Elems(post))
        /\ Len(post) = Len(pre) - Cardinality(removed)
        /\ \A e \in removed :
              /\ lot_id(s.heap[e]) \in named
              /\ \E i \in 1..Len(recs) :
                    /\ recs[i].lot_id = lot_id(s.heap[e])
                    /\ recs[i].amount = s.heap[e].amount
        /\ \A e \in Elems(post) :
              /\ s2.heap[e].sold = s.heap[e].sold
              /\ s2.heap[e].amount = 0 => s.heap[e].amount = 0
        /\ Cardinality(changed) <= 1
        /\ \A e \in changed :
              /\ lot_id(s.heap[e]) \in named
              /\ s2.heap[e].amount < s.heap[e].amount
              /\ s2.heap[e] = [s.heap[e] EXCEPT !.amount = s2.heap[e].amount]

\* C19: after a successful sell that names lot identifiers the base queue
\* is the queue before the call without the selected lots that were
\* consumed in full, each removed once from wherever it stood; the lots that
\* remain keep their relative order and their amounts, but for one selected
\* lot that was consumed in part.
C19_ViewMirroredInBase ==
    [][LotSellStep => MirrorPost(Self, Self', last'.tr, NewSales(Self, Self', last'.tr))]_vars

\* the named lot stood behind an untagged lot, which alone remains
C19_Witness ==
    /\ last.op = "sell" /\ last.status = "ok" /\ last.tr.lot_ids = <<"a">>
    /\ Len(applied) = 3 /\ lot_id(applied[1]) = NoLot /\ lot_id(applied[2]) = "a"
    /\ Len(QueueOf(Self, "A", "T")) = 1
    /\ lot_id(heap[QueueOf(Self, "A", "T")[1]]) = NoLot
    /\ heap[QueueOf(Self, "A", "T")[1]].amount = 1
    /\ Len(SalesOf(Self, "A", "T")) = 1
    /\ SalesOf(Self, "A", "T")[1].lot_id = "a"

(***************************************************************************)
(* Date order of the accepted transactions                                 *)
(***************************************************************************)
\* the latest date among the transactions trs of the pair (b, t), -1 if none
RECURSIVE LatestDate(_, _, _)
LatestDate(trs, b, t) ==
    IF trs = <<>> THEN 0 - 1
    ELSE IF /\ trs[Len(trs)].brokerage = b
            /\ trs[Len(trs)].ticker = t
            /\ trs[Len(trs)].date > LatestDate(SubSeq(trs, 1, Len(trs) - 1), b, t)
    THEN trs[Len(trs)].date
    ELSE LatestDate(SubSeq(trs, 1, Len(trs) - 1), b, t)

\* C15: no buy or sell dated before the latest accepted transaction (buy or
\* sell) of its (brokerage, ticker) is accepted, so that the accepted
\* transactions of a pair are non-decreasing in date.
C15_AcceptedDatesNonDecreasing ==
    [][(/\ last'.op \in {"buy", "sell"}
        /\ last'.tr.date < LatestDate(applied, last'.tr.brokerage, last'.tr.ticker))
       => last'.status # "ok"]_vars

(***************************************************************************)
(* Specification of the load: the constructor has initialised the fields   *)
(* and calls rebuild() on a store of at most MaxFile + 1 lines              *)
(***************************************************************************)
LoadLines ==
    {TrLine(StockTransaction("buy", "T", a, R(2), 0, Zero, "A", Zero, <<>>)) : a \in Amounts}
    \cup {TrLine(StockTransaction("buy", "T", 1, R(2), WashDays, Zero, "A", Zero, <<>>)),
          TrLine(StockTransaction("buy", "U", 1, R(2), 0, Zero, "A", Zero, <<>>)),
          TrLine(StockTransaction("sell", "T", 2, R(3), WashDays, Zero, "A", Zero, <<>>)),
          TrLine(StockTransaction("sell", "T", 1, R(3), 0, Zero, "A", Zero, <<>>))}
    \cup {SplitLine("T", 2, d) : d \in Dates}

LoadFiles == SeqsUpTo(LoadLines, MaxFile + 1)

\* StockTransactor.__init__ up to its call of rebuild()
InitLoad ==
    /\ file \in LoadFiles
    /\ heap = NewEngine.heap
    /\ buy_transactions = NewEngine.buy_transactions
    /\ sale_items = NewEngine.sale_items
    /\ history = NewEngine.history
    /\ file_transactions = NewEngine.file_transactions
    /\ splits = NewEngine.splits
    /\ washgroups = NewEngine.washgroups
    /\ wash_sales = NewEngine.wash_sales
    /\ last = [op |-> "new", status |-> "ok", tr |-> NoTr]
    /\ calls = 0
    /\ applied = <<>>

\* the call of rebuild() that ends StockTransactor.__init__
Load ==
    /\ last.op = "new"
    /\ Called("load", NoTr, rebuild(Self, file))
    /\ UNCHANGED applied

SpecLoad == InitLoad /\ [][Load]_vars

(***************************************************************************)
(* Failures during a replay                                                *)
(***************************************************************************)
\* the replay of the transactions ids in which a transaction that fails or
\* is rejected is left out
RECURSIVE ReplayWithout(_, _)
KeepIfApplied(s, r, ids) ==
    ReplayWithout(IF r.status = "ok" THEN r.st ELSE s, ids)

ReplayWithout(s, ids) ==
    IF ids = <<>> THEN s
    ELSE KeepIfApplied(s,
                       IF s.heap[Head(ids)].tr_type = "buy"
                       THEN buy_transaction(s, Head(ids), TRUE)
                       ELSE sell_transaction(s, s.heap[Head(ids)], TRUE),
                       Tail(ids))

\* the engine that reads the store lines into s and replays them leaving
\* out the transactions that fail
LoadWithout(s) == ReplayWithout(s, s.file_transactions)

\* C16: when the replay of the store meets a sell that fails for want of
\* lots or a transaction rejected for its date, that transaction is skipped
\* and the later ones are applied: holdings, ledger and carryover are those
\* of the replay of the same store without the failing transactions.
C16_ReplaySkipsFailures ==
    [][(last'.op = "load" /\ last'.status \in {"ok", "insufficient"}) =>
          /\ HoldingsByValue(Self')
               = HoldingsByValue(LoadWithout(split_stocks(ReadFile(Self, file))))
          /\ Ledger(Self') = Ledger(LoadWithout(split_stocks(ReadFile(Self, file))))
          /\ wash_sales' = LoadWithout(split_stocks(ReadFile(Self, file))).wash_sales]_vars

(***************************************************************************)
(* Stock splits                                                            *)
(***************************************************************************)
\* the transactions of the store f, in order
TrsOf(f) == SelectSeq(f, LAMBDA line : line.kind = "tr")

\* the product of the amounts of the split directives of f that apply to
\* the transaction tr: same ticker, dated on or after tr, tr a buy
RECURSIVE SplitFactor(_, _)
SplitFactor(f, tr) ==
    IF f = <<>> THEN 1
    ELSE (IF /\ Head(f).kind = "SPLIT"
             /\ tr.tr_type = "buy"
             /\ Head(f).ticker = tr.ticker
             /\ Head(f).date >= tr.date
          THEN Head(f).amount ELSE 1) * SplitFactor(Tail(f), tr)

\* C20: after a load every transaction of the store has its price divided
\* by the product of the split directives that apply to it (buys of the
\* split's ticker dated on or before the split, once per directive) and,
\* when the store sells nothing, its amount multiplied by it; buys dated
\* after a split, buys of other tickers and sells keep price and amount.
C20_SplitsRescaleEarlierBuys ==
    last.op = "load" =>
        /\ Len(file_transactions) = Len(TrsOf(file))
        /\ \A i \in 1..Len(file_transactions) :
              /\ heap[file_transactions[i]].price
                   = RDivInt(TrsOf(file)[i].tr.price, SplitFactor(file, TrsOf(file)[i].tr))
              /\ (\A j \in 1..Len(TrsOf(file)) : TrsOf(file)[j].tr.tr_type = "buy")
                   => heap[file_transactions[i]].amount
                        = TrsOf(file)[i].tr.amount * SplitFactor(file, TrsOf(file)[i].tr)
              /\ TrsOf(file)[i].tr.tr_type = "sell"
                   => heap[file_transactions[i]] = TrsOf(file)[i].tr

\* a split of T rescaled the buy of T dated on its day and left the later
\* buy of T alone
C20_Witness ==
    /\ last.op = "load" /\ last.status = "ok"
    /\ Len(file) = 3 /\ file[3].kind = "SPLIT"
    /\ Len(file_transactions) = 2
    /\ file[1].tr.amount = 1 /\ file[1].tr.date = file[3].date
    /\ heap[file_transactions[1]].amount = 2
    /\ heap[file_transactions[1]].price = R(1)
    /\ heap[file_transactions[2]].ticker = "T"
    /\ heap[file_transactions[2]].date > file[3].date
    /\ heap[file_transactions[2]].amount = 1
    /\ heap[file_transactions[2]].price = R(2)

(***************************************************************************)
(* Specification of a session on a store with wash groups: the store lists  *)
(* up to two wash groups over three tickers and then up to MaxFile lots of  *)
(* the traded tickers                                                       *)
(***************************************************************************)
GroupTickers == Tickers \cup {"V"}

GroupLines == {WashGroupLine(<<"T", "U">>), WashGroupLine(<<"U", "V">>)}

\* lots of one share of each traded ticker and a lot of two shares of T
GroupLots ==
    {TrLine(StockTransaction("buy", t, 1, R(2), 0, Zero, "A", Zero, <<>>)) : t \in Tickers}
    \cup {TrLine(StockTransaction("buy", "T", 2, R(2), 0, Zero, "A", Zero, <<>>))}

GroupFiles == {g \o l : g \in SeqsUpTo(GroupLines, 2), l \in SeqsUpTo(GroupLots, MaxFile)}

\* a late buy of T
GroupBuyInputs == {StockTransaction("buy", "T", 1, R(2), WashDays, Zero, "A", Zero, <<>>)}

\* late sells at a loss of one share of each traded ticker and of two shares
\* of T, and a late sell of T at a gain
GroupSellInputs ==
    {StockTransaction("sell", t, 1, R(1), WashDays, Zero, "A", Zero, <<>>) : t \in Tickers}
    \cup {StockTransaction("sell", "T", 2, R(1), WashDays, Zero, "A", Zero, <<>>),
          StockTransaction("sell", "T", 1, R(3), WashDays, Zero, "A", Zero, <<>>)}

InitGroups == InitFrom(GroupFiles)

NextGroups ==
    \/ \E tr \in GroupBuyInputs : Buy(tr)
    \/ \E tr \in GroupSellInputs : Sell(tr)

SpecGroups == InitGroups /\ [][NextGroups]_vars

\* find_wash_trigger finds a lone unsold buy of ticker b, dated as the sale,
\* for a sale of ticker a under the wash groups of engine s
Eligible(s, a, b) ==
    find_wash_trigger(
        [s EXCEPT !.heap = <<[StockTransaction("buy", b, 1, R(2), 0, Zero, "A", Zero, <<>>)
                                EXCEPT !.sold = FALSE]>>,
                  !.file_transactions = <<1>>],
        StockTransaction("sell", a, 1, R(1), 0, Zero, "A", Zero, <<>>)) # 0

\* some wash group of engine s lists both tickers
ShareGroup(s, a, b) ==
    \E i \in 1..Len(s.washgroups) : {a, b} \subseteq Elems(s.washgroups[i])

\* C21: wash-group membership is symmetric and many-to-many: a buy of b is
\* eligible as trigger for a sale of a exactly when a buy of a is eligible
\* for a sale of b, and two different tickers are eligible for each other
\* exactly when some group lists both
C21_WashGroupSymmetric ==
    \A a, b \in GroupTickers :
        /\ Eligible(Self, a, b) <=> Eligible(Self, b, a)
        /\ a # b => (Eligible(Self, a, b) <=> ShareGroup(Self, a, b))

\* U is in two groups, T and V share none, and a loss sale of U was washed
\* by the lot of another ticker of its groups
C21_Witness ==
    /\ \E i, j \in 1..Len(washgroups) :
           i # j /\ "U" \in Elems(washgroups[i]) /\ "U" \in Elems(washgroups[j])
    /\ ~ShareGroup(Self, "T", "V")
    /\ last.op = "sell" /\ last.status = "ok" /\ last.tr.ticker = "U"
    /\ \E k \in 1..Len(SalesOf(Self, "A", "U")) : SalesOf(Self, "A", "U")[k].wash
    /\ \A k \in 1..Len(file_transactions) :
           heap[file_transactions[k]].ticker = "U" => heap[file_transactions[k]].sold

(***************************************************************************)
(* Order of the ledger and of the queues                                    *)
(***************************************************************************)
\* C22: the sale records of every (brokerage, ticker) are listed with
\* non-decreasing disposal dates
C22_SalesOldestFirst ==
    \A b \in Brokerages, t \in Tickers :
        \A i, j \in 1..Len(SalesOf(Self, b, t)) :
            i < j => SalesOf(Self, b, t)[i].date_sold <= SalesOf(Self, b, t)[j].date_sold

\* the lots of SpecLots and a late lot tagged "a"
OrderBuyInputs ==
    LotBuyInputs
    \cup {StockTransaction("buy", "T", 1, R(2), WashDays, Zero, "A", Zero, <<"a">>)}

NextOrder ==
    \/ \E tr \in OrderBuyInputs : Buy(tr)
    \/ \E tr \in LotsSellInputs : Sell(tr)

\* a session of buys and sells, oldest first or by lot, on an empty store
SpecOrder == InitLots /\ [][NextOrder]_vars

\* C23: every lot queue lists its lots oldest first: the acquisition dates
\* do not decrease from head to tail, and the tail is the lot of the queue
\* that was added last (the lot objects of a session are numbered in the
\* order of their buys)
C23_QueueOldestFirst ==
    \A b \in Brokerages, t \in Tickers :
        \A i, j \in 1..Len(QueueOf(Self, b, t)) :
            /\ i < j => heap[QueueOf(Self, b, t)[i]].date <= heap[QueueOf(Self, b, t)[j]].date
            /\ j = Len(QueueOf(Self, b, t)) => QueueOf(Self, b, t)[i] <= QueueOf(Self, b, t)[j]

(***************************************************************************)
(* Session calls and the backing store                                      *)
(***************************************************************************)
\* the store that lists the given transactions, one per line
StoreOf(trs) == [i \in 1..Len(trs) |-> TrLine(trs[i])]

\* every call of the session so far was an accepted buy() or sell()
OnlyAcceptedCalls ==
    /\ Len(applied) = calls
    /\ \A i \in 1..Len(applied) : applied[i] # NoTr /\ applied[i].lot_ids = <<>>

\* C24: after a sequence of accepted buy() and sell() calls on an engine
\* with an empty store, the holdings and the sale records (wash flag and
\* disallowed loss included) are those of an engine that loaded the same
\* sequence from its store
C24_CallsEqualStore ==
    (file = <<>> /\ OnlyAcceptedCalls) =>
        /\ HoldingsByValue(Self) = HoldingsByValue(Fresh(StoreOf(applied)))
        /\ Ledger(Self) = Ledger(Fresh(StoreOf(applied)))

\* the transactions of the calls that were accepted, in call order
RECURSIVE Accepted(_)
Accepted(trs) ==
    IF trs = <<>> THEN <<>>
    ELSE IF Head(trs) = NoTr THEN Accepted(Tail(trs))
    ELSE <<Head(trs)>> \o Accepted(Tail(trs))

\* C25: the session history holds exactly the transactions of the accepted
\* calls, in call order; a call that was rejected or that failed is not in it
C25_HistoryIsAcceptedCalls ==
    [i \in 1..Len(history) |-> heap[history[i]]] = Accepted(applied)

(***************************************************************************)
(* Specification of a sale item on its own: an item is constructed, then    *)
(* its wash flag, disallowed loss and commission are set                    *)
(***************************************************************************)
InitItem ==
    /\ \E a \in Amounts, p \in {R(1), R(2), R(3)}, c \in {R(2), R(5)} :
           sale_items = [A |-> [T |-> <<SaleItem("A", "T", p, a, 0, WashDays, c, Zero, NoLot)>>]]
    /\ file = <<>>
    /\ heap = NewEngine.heap
    /\ buy_transactions = NewEngine.buy_transactions
    /\ history = NewEngine.history
    /\ file_transactions = NewEngine.file_transactions
    /\ splits = NewEngine.splits
    /\ washgroups = NewEngine.washgroups
    /\ wash_sales = NewEngine.wash_sales
    /\ last = [op |-> "new", status |-> "ok", tr |-> NoTr]
    /\ calls = 0
    /\ applied = <<>>

\* sale_item.wash = ...; sale_item.dis_wash_loss = ...; sale_item.comm = ...
SetFields ==
    \E w \in BOOLEAN, d \in {Zero, R(1), R(4)}, c \in {Zero, R(1)} :
        /\ sale_items' = [sale_items EXCEPT !["A"]["T"][1] =
                             [@ EXCEPT !.wash = w, !.dis_wash_loss = d, !.comm = c]]
        /\ last' = [last EXCEPT !.op = "set"]
        /\ UNCHANGED <<heap, buy_transactions, history, file_transactions, splits,
                       washgroups, wash_sales, file, calls, applied>>

SpecItem == InitItem /\ [][SetFields]_vars

\* the sale records of the ledger of engine s
Records(s) ==
    UNION {Elems(SalesOf(s, b, t)) : b \in Brokerages, t \in Tickers}

\* amount x sale price - commission - cost basis
RawGain(rec) ==
    RSub(RSub(RMul(R(rec.amount), rec.sale_price), rec.comm), rec.cost_basis)

InWindow(s, tr, i) ==
    /\ s.heap[i].tr_type = "buy"
    /\ s.heap[i].ticker = tr.ticker \/ ShareGroup(s, tr.ticker, s.heap[i].ticker)
    /\ s.heap[i].date >= tr.date - WashDays
    /\ s.heap[i].date <= tr.date + WashDays

\* the lots that a sell oldest first has disposed of or is selling from when
\* it generates its k-th record
TakenBy(s, tr, k) == {Queue(s, tr.brokerage, tr.ticker)[j] : j \in 1..k}

Candidates(s, tr, k) ==
    {j \in 1..Len(s.file_transactions) :
        /\ s.file_transactions[j] \notin TakenBy(s, tr, k)
        /\ InWindow(s, tr, s.file_transactions[j])
        /\ ~s.heap[s.file_transactions[j]].sold}

\* the first of them in store order
FirstCandidate(s, tr, k) ==
    s.file_transactions[CHOOSE j \in Candidates(s, tr, k) :
                            \A j2 \in Candidates(s, tr, k) : j <= j2]

\* C29: when a sell oldest first commits a record with a loss and some buys
\* of the store satisfy every trigger condition, the record is flagged and
\* its disallowed loss is the loss per share times the smaller of the
\* record's amount and the amount of the first of those buys; a buy that
\* fails a condition does not hide a later one that satisfies them all
C29_FirstQualifyingBuyUsed ==
    [][(last'.op = "sell" /\ last'.status = "ok" /\ last'.tr.lot_ids = <<>>) =>
        \A k \in 1..Len(NewSales(Self, Self', last'.tr)) :
            (/\ RLt(RawGain(NewSales(Self, Self', last'.tr)[k]), Zero)
             /\ Candidates(Self, last'.tr, k) # {}) =>
                /\ NewSales(Self, Self', last'.tr)[k].wash
                /\ NewSales(Self, Self', last'.tr)[k].dis_wash_loss =
                       RMul(RAbs(RDivInt(RawGain(NewSales(Self, Self', last'.tr)[k]),
                                         NewSales(Self, Self', last'.tr)[k].amount)),
                            R(Min(NewSales(Self, Self', last'.tr)[k].amount,
                                  heap[FirstCandidate(Self, last'.tr, k)].amount)))]_vars

(***************************************************************************)
(* The ledger under buys and sells                                          *)
(***************************************************************************)
\* the lots a sell tr takes from in engine s, in the order it takes them
SoldFrom(s, tr) ==
    IF tr.lot_ids = <<>> THEN Queue(s, tr.brokerage, tr.ticker)
    ELSE ReorderData(s.heap, Queue(s, tr.brokerage, tr.ticker), tr.lot_ids)

\* C30: the ledger is append-only under buy and sell: every list of the
\* ledger before the call is a prefix of the list after it; a buy, a failed
\* sell and a sell of another pair leave the list as it was; a successful
\* sell adds its records at the end in the order in which it took the lots
C30_LedgerAppendOnly ==
    [][last'.op \in {"buy", "sell"} =>
        /\ \A b \in Brokerages, t \in Tickers :
               /\ Len(SalesOf(Self, b, t)) <= Len(SalesOf(Self', b, t))
               /\ SubSeq(SalesOf(Self', b, t), 1, Len(SalesOf(Self, b, t))) = SalesOf(Self, b, t)
               /\ (\/ last'.op = "buy" \/ last'.status # "ok"
                   \/ b # last'.tr.brokerage \/ t # last'.tr.ticker) =>
                      SalesOf(Self', b, t) = SalesOf(Self, b, t)
        /\ (last'.op = "sell" /\ last'.status = "ok") =>
               /\ Len(NewSales(Self, Self', last'.tr)) > 0
               /\ \A k \in 1..Len(NewSales(Self, Self', last'.tr)) :
                      /\ NewSales(Self, Self', last'.tr)[k].date_sold = last'.tr.date
                      /\ NewSales(Self, Self', last'.tr)[k].sale_price = last'.tr.price
                      /\ NewSales(Self, Self', last'.tr)[k].date_acquired =
                             heap[SoldFrom(Self, last'.tr)[k]].date
                      /\ NewSales(Self, Self', last'.tr)[k].lot_id =
                             lot_id(heap[SoldFrom(Self, last'.tr)[k]])]_vars

\* a sell over an early and a late lot added its two records, in that
\* order, after the record of an earlier sell
C30_Witness ==
    /\ last.op = "sell" /\ last.status = "ok" /\ last.tr.amount = 2
    /\ Len(SalesOf(Self, "A", "T")) = 3
    /\ SalesOf(Self, "A", "T")[1].sale_price # last.tr.price
    /\ SalesOf(Self, "A", "T")[2].sale_price = last.tr.price
    /\ SalesOf(Self, "A", "T")[2].date_acquired = 0
    /\ SalesOf(Self, "A", "T")[3].sale_price = last.tr.price
    /\ SalesOf(Self, "A", "T")[3].date_acquired = WashDays

(***************************************************************************)
(* The records of one sell                                                  *)
(***************************************************************************)
\* the sum of the amounts of the records recs
RECURSIVE SumRecords(_)
SumRecords(recs) ==
    IF recs = <<>> THEN 0 ELSE Head(recs).amount + SumRecords(Tail(recs))

\* C31: the records of a successful sell of amount R have amounts that sum
\* to R, no lot supplies more than one of them, and no record is larger
\* than the amount its lot held before the call
C31_OneRecordPerLot ==
    [][(last'.op = "sell" /\ last'.status = "ok") =>
        /\ SumRecords(NewSales(Self, Self', last'.tr)) = last'.tr.amount
        /\ \A j, k \in 1..Len(NewSales(Self, Self', last'.tr)) :
               /\ j # k => SoldFrom(Self, last'.tr)[j] # SoldFrom(Self, last'.tr)[k]
               /\ NewSales(Self, Self', last'.tr)[k].amount
                      <= heap[SoldFrom(Self, last'.tr)[k]].amount]_vars

(***************************************************************************)
(* The lots of the queues                                                   *)
(***************************************************************************)
\* C32: every lot held in a lot queue has a positive amount and is not
\* marked disposed, so no lot marked disposed is in a queue
C32_QueuedLotsUndisposed ==
    \A b \in Brokerages, t \in Tickers :
        \A i \in 1..Len(QueueOf(Self, b, t)) :
            heap[QueueOf(Self, b, t)[i]].amount > 0 /\ ~heap[QueueOf(Self, b, t)[i]].sold

(***************************************************************************)
(* Cost basis                                                               *)
(***************************************************************************)
\* price x amount + additional basis of the lot
BasisOf(lot, amount) == RAdd(RMul(lot.price, R(amount)), lot.add_basis)

BasisStore ==
    <<TrLine(StockTransaction("buy", "T", 1, R(2), 0, Zero, "A", Zero, <<>>)),
      TrLine(StockTransaction("buy", "T", 1, R(2), 0, Zero, "A", Zero, <<>>)),
      TrLine(StockTransaction("sell", "T", 1, R(1), WashDays, Zero, "A", Zero, <<>>)),
      TrLine(StockTransaction("buy", "T", 2, R(2), WashDays, R(1), "A", Zero, <<"n">>))>>

\* a late plain buy
BasisBuyInputs == {StockTransaction("buy", "T", 1, R(2), WashDays, Zero, "A", Zero, <<>>)}

\* late sells at a gain, oldest first or from lot "n"
BasisSellInputs ==
    {StockTransaction("sell", "T", a, R(3), WashDays, Zero, "A", Zero, ids) :
        a \in Amounts, ids \in {<<>>, <<"n">>}}

InitBasis == InitFrom({BasisStore})

NextBasis ==
    \/ \E tr \in BasisBuyInputs : Buy(tr)
    \/ \E tr \in BasisSellInputs : Sell(tr)

SpecBasis == InitBasis /\ [][NextBasis]_vars

\* the sum of the cost bases of the records recs that were sold from a lot
\* with the identifier id
RECURSIVE SumBasis(_, _)
SumBasis(recs, id) ==
    IF recs = <<>> THEN Zero
    ELSE IF Head(recs).lot_id = id
    THEN RAdd(Head(recs).cost_basis, SumBasis(Tail(recs), id))
    ELSE SumBasis(Tail(recs), id)

\* the lot of the fourth line of BasisStore
LotN == file_transactions[4]

\* C34: once lot "n" is fully disposed, the cost bases of the records sold
\* from it sum to price x original amount + additional basis + commission
\* of the lot, however many sells it took
C34_CostBasisConserved ==
    heap[LotN].sold =>
        SumBasis(SalesOf(Self, "A", "T"), "n") =
            RAdd(RAdd(RMul(heap[LotN].price, R(file[4].tr.amount)), heap[LotN].add_basis),
                 heap[LotN].comm)

(***************************************************************************)
(* Specification of a session on a store of three lots of one ticker, so    *)
(* that two loss sales in a row each have a later unsold lot in the window  *)
(***************************************************************************)
CarryStore ==
    <<TrLine(StockTransaction("buy", "T", 1, R(2), 0, Zero, "A", Zero, <<>>)),
      TrLine(StockTransaction("buy", "T", 2, R(2), 0, Zero, "A", Zero, <<>>)),
      TrLine(StockTransaction("buy", "T", 1, R(2), 0, Zero, "A", Zero, <<>>))>>

\* late buys of T at either brokerage
CarryBuyInputs ==
    {StockTransaction("buy", "T", 1, R(2), WashDays, Zero, b, Zero, <<>>) : b \in Brokerages}

\* late sells of T at a loss or at a gain
CarrySellInputs ==
    {StockTransaction("sell", "T", a, p, WashDays, Zero, "A", Zero, <<>>) :
        a \in Amounts, p \in {R(1), R(3)}}

InitCarry == InitFrom({CarryStore})

NextCarry ==
    \/ \E tr \in CarryBuyInputs : Buy(tr)
    \/ \E tr \in CarrySellInputs : Sell(tr)

SpecCarry == InitCarry /\ [][NextCarry]_vars

\* the sum of the disallowed losses of the records recs
RECURSIVE SumDis(_)
SumDis(recs) ==
    IF recs = <<>> THEN Zero ELSE RAdd(Head(recs).dis_wash_loss, SumDis(Tail(recs)))

\* the sum of the additional basis of the buys of ticker t among the
\* transactions ids of engine s
RECURSIVE SumAddBasis(_, _, _)
SumAddBasis(s, ids, t) ==
    IF ids = <<>> THEN Zero
    ELSE IF s.heap[Head(ids)].tr_type = "buy" /\ s.heap[Head(ids)].ticker = t
    THEN RAdd(s.heap[Head(ids)].add_basis, SumAddBasis(s, Tail(ids), t))
    ELSE SumAddBasis(s, Tail(ids), t)

\* C35: for every ticker, the disallowed losses of the committed records sum
\* to the additional basis given to the buys of the store and of the
\* session plus the outstanding carryover
C35_DisallowedLossConserved ==
    \A t \in Tickers :
        RAdd(SumDis(SalesOf(Self, "A", t)), SumDis(SalesOf(Self, "B", t))) =
            RAdd(SumAddBasis(Self, file_transactions \o history, t), wash_sales[t])

(***************************************************************************)
(* Specification of a session on a store with an early plain lot and a late *)
(* lot tagged "a", with sells of the named lot and sells on either date     *)
(***************************************************************************)
DatesStore ==
    <<TrLine(StockTransaction("buy", "T", 1, R(2), 0, Zero, "A", Zero, <<>>)),
      TrLine(StockTransaction("buy", "T", 1, R(2), WashDays, Zero, "A", Zero, <<"a">>))>>

\* plain buys of T on either date
DatesBuyInputs ==
    {StockTransaction("buy", "T", 1, R(2), d, Zero, "A", Zero, <<>>) : d \in Dates}

\* sells at a gain on either date, oldest first, and late sells of lot "a"
DatesSellInputs ==
    {StockTransaction("sell", "T", a, R(3), d, Zero, "A", Zero, <<>>) :
        a \in Amounts, d \in Dates}
    \cup {StockTransaction("sell", "T", a, R(3), WashDays, Zero, "A", Zero, <<"a">>) :
              a \in Amounts}

InitDates == InitFrom({DatesStore})

NextDates ==
    \/ \E tr \in DatesBuyInputs : Buy(tr)
    \/ \E tr \in DatesSellInputs : Sell(tr)

SpecDates == InitDates /\ [][NextDates]_vars

\* C36: every committed sale record has a positive amount and a disposal
\* date on or after its acquisition date
C36_RecordsWellFormed ==
    \A rec \in Records(Self) : rec.amount > 0 /\ rec.date_sold >= rec.date_acquired

(***************************************************************************)
(* Independence of the (brokerage, ticker) pairs                            *)
(***************************************************************************)
\* C37: a buy or a sell on (brokerage, ticker) leaves the queue of every
\* other pair (lots, order, amounts, flags) and its sales list as they were
C37_OtherPairsUnchanged ==
    [][(last'.op \in {"buy", "sell"}) =>
        \A b \in Brokerages, t \in Tickers :
            (b # last'.tr.brokerage \/ t # last'.tr.ticker) =>
                /\ HoldingsByValue(Self)[b][t] = HoldingsByValue(Self')[b][t]
                /\ SalesOf(Self, b, t) = SalesOf(Self', b, t)]_vars

\* a sell of T at A succeeded while U at A and T at B hold lots and U at A
\* has a sale record
C37_Witness ==
    /\ last.op = "sell" /\ last.status = "ok"
    /\ last.tr.brokerage = "A" /\ last.tr.ticker = "T"
    /\ QueueOf(Self, "A", "U") # <<>>
    /\ QueueOf(Self, "B", "T") # <<>>
    /\ SalesOf(Self, "A", "U") # <<>>

(***************************************************************************)
(* Outcomes of the loop of sell_transaction                                 *)
(***************************************************************************)
\* C38: a sell that reaches the loop ends in one of two ways: the whole
\* amount is sold with at most (queue length + 1) records committed, one per
\* iteration, or the sell fails for insufficient lots with the ledger, the
\* history and the lots of the queue as they were before the call
C38_SellLoopOutcomes ==
    [][(last'.op = "sell" /\ last'.status \notin {"lookup", "rejected", "lots_not_found"}) =>
        \/ /\ last'.status = "ok"
           /\ SumRecords(NewSales(Self, Self', last'.tr)) = last'.tr.amount
           /\ Len(NewSales(Self, Self', last'.tr))
                 <= Len(QueueOf(Self, last'.tr.brokerage, last'.tr.ticker)) + 1
        \/ /\ last'.status = "insufficient"
           /\ Ledger(Self') = Ledger(Self)
           /\ Len(history') = Len(history)
           /\ Elems(HoldingsByValue(Self')[last'.tr.brokerage][last'.tr.ticker])
                 = Elems(HoldingsByValue(Self)[last'.tr.brokerage][last'.tr.ticker])]_vars

(***************************************************************************)
(* Size of the disallowed loss                                              *)
(***************************************************************************)
\* C39: the disallowed loss of every committed record is not negative, is
\* at most the size of the record's loss when its raw gain is negative, and
\* the record's allowed loss is never positive
C39_DisallowedWithinLoss ==
    \A rec \in Records(Self) :
        /\ ~RLt(rec.dis_wash_loss, Zero)
        /\ RLt(RawGain(rec), Zero) => ~RLt(RAbs(RawGain(rec)), rec.dis_wash_loss)
        /\ ~RLt(Zero, allowed_loss(rec))

\* a wash sale of more shares than its trigger holds: part of the loss is
\* disallowed and the rest is allowed
C39_Witness ==
    \E rec \in Records(Self) :
        /\ rec.wash
        /\ RLt(Zero, rec.dis_wash_loss)
        /\ RLt(rec.dis_wash_loss, RAbs(RawGain(rec)))
        /\ RLt(allowed_loss(rec), Zero)

====
